---- MODULE Spec2Model ----
(***************************************************************************)
(* Model of visual_midi.Plotter (src/visual_midi/visual_midi.py): the      *)
(* plotter object, a pretty_midi score and the operations plot, save and   *)
(* show.  Times are Python floats in the source; here they are exact       *)
(* rationals [n, d] in lowest terms, so the arithmetic of the source is    *)
(* followed step by step without rounding.  An optional value (None in the *)
(* source) is the empty tuple, a present value v is the tuple <<v>>.       *)
(***************************************************************************)
EXTENDS FiniteSets, Integers, Sequences, TLC

VARIABLES plotter, pretty_midi, layout, plot_file, browser_opened

vars == <<plotter, pretty_midi, layout, plot_file, browser_opened>>

(***************************************************************************)
(* Bounds of the model.                                                    *)
(***************************************************************************)
MaxNotes == 2
MaxShow == 2
MaxMarks == 2
\* instruments of a score whose notes are colored
MaxInstruments == 4

(***************************************************************************)
(* Optional values and Python truthiness.                                  *)
(***************************************************************************)
None == <<>>
Some(v) == <<v>>
IsNone(o) == o = <<>>
Get(o) == o[1]

(***************************************************************************)
(* Exact rational arithmetic standing for the float arithmetic.            *)
(***************************************************************************)
Abs(x) == IF x < 0 THEN -x ELSE x

RECURSIVE GCD(_, _)
GCD(a, b) == IF b = 0 THEN a ELSE GCD(b, a % b)

R(n, d) ==
  LET s == IF d < 0 THEN -1 ELSE 1
      g == GCD(Abs(n), Abs(d))
  IN [n |-> (s * n) \div g, d |-> (s * d) \div g]

RInt(i) == [n |-> i, d |-> 1]
RAdd(a, b) == R(a.n * b.d + b.n * a.d, a.d * b.d)
RSub(a, b) == R(a.n * b.d - b.n * a.d, a.d * b.d)
RMul(a, b) == R(a.n * b.n, a.d * b.d)
RDiv(a, b) == R(a.n * b.d, a.d * b.n)
RLt(a, b) == a.n * b.d < b.n * a.d
RLe(a, b) == a.n * b.d <= b.n * a.d
RMin(a, b) == IF RLt(b, a) THEN b ELSE a
RMax(a, b) == IF RLt(a, b) THEN b ELSE a
\* Python int(x): truncation toward zero
RTrunc(a) == IF a.n >= 0 THEN a.n \div a.d ELSE -((-a.n) \div a.d)
\* Python float x % y for y > 0: x - floor(x / y) * y
RMod(a, b) ==
  LET q == RDiv(a, b)
  IN RSub(a, RMul(RInt(q.n \div q.d), b))
RIsZero(a) == a.n = 0

IMin(a, b) == IF b < a THEN b ELSE a
IMax(a, b) == IF a < b THEN b ELSE a

(***************************************************************************)
(* Class constants.                                                        *)
(***************************************************************************)
_MAX_PITCH == 127
_MIN_PITCH == 0
\* len(colors) of bokeh.colors.groups.purple
PaletteSize == 18

Coloring == {"PITCH", "INSTRUMENT"}

\* Preset.PRESET_DEFAULT, the keys that reach the layout
PRESET_DEFAULT ==
  [show_bar |-> Some(TRUE), show_beat |-> Some(TRUE),
   plot_height |-> Some(400), row_height |-> Some(25),
   stop_live_reload_button |-> Some(TRUE)]

\* Preset.PRESET_SMALL and Preset.PRESET_4K: the keys they leave out are None
PRESET_SMALL ==
  [show_bar |-> None, show_beat |-> None,
   plot_height |-> Some(200), row_height |-> None,
   stop_live_reload_button |-> Some(FALSE)]

PRESET_4K ==
  [show_bar |-> None, show_beat |-> None,
   plot_height |-> None, row_height |-> Some(100),
   stop_live_reload_button |-> None]

\* Preset.__getitem__: the configured value, else the default one
PresetGet(preset, item) ==
  IF ~IsNone(preset[item]) THEN Get(preset[item])
  ELSE Get(PRESET_DEFAULT[item])

\* Preset.is_defined: the configured value read as a truth value
PresetIsDefined(preset, item) ==
  /\ ~IsNone(preset[item])
  /\ Get(preset[item]) # 0

(***************************************************************************)
(* Plotter._get_qpm: the override when truthy, else the only tempo change  *)
(* whose minimum and maximum are non-zero and equal.                       *)
(***************************************************************************)
RECURSIVE SeqMin(_)
SeqMin(s) == IF Len(s) = 1 THEN s[1] ELSE IMin(s[1], SeqMin(Tail(s)))

RECURSIVE SeqMax(_)
SeqMax(s) == IF Len(s) = 1 THEN s[1] ELSE IMax(s[1], SeqMax(Tail(s)))

IsPlateau(tempo_change) ==
  /\ SeqMin(tempo_change) # 0
  /\ SeqMax(tempo_change) # 0
  /\ SeqMin(tempo_change) = SeqMax(tempo_change)

RECURSIVE QpmLoop(_, _)
QpmLoop(tempo_changes, qpm) ==
  IF tempo_changes = <<>> THEN
    IF IsNone(qpm) THEN [error |-> "UnknownTempo", qpm |-> 0]
    ELSE [error |-> "none", qpm |-> Get(qpm)]
  ELSE IF IsPlateau(Head(tempo_changes)) THEN
    IF ~IsNone(qpm) THEN [error |-> "MultipleTempoChanges", qpm |-> 0]
    ELSE QpmLoop(Tail(tempo_changes), Some(SeqMin(Head(tempo_changes))))
  ELSE QpmLoop(Tail(tempo_changes), qpm)

_get_qpm(self, midi) ==
  IF ~IsNone(self._qpm) /\ Get(self._qpm) # 0
  THEN [error |-> "none", qpm |-> Get(self._qpm)]
  ELSE QpmLoop(midi.tempo_changes, None)

\* Plotter._scale_time
_scale_time(qpm) == R(qpm, 120)

(***************************************************************************)
(* Plotter._get_color: the index into the palette, or the failure.         *)
(***************************************************************************)
\* _get_color with a remainder that keeps the sign of pitch - 36
_get_colorTruncated(self, index_instrument, note) ==
  IF self._coloring = "PITCH"
  THEN [error |-> "none",
        color_index |-> IF note.pitch >= 36
                        THEN (note.pitch - 36) % PaletteSize
                        ELSE 0 - ((36 - note.pitch) % PaletteSize)]
  ELSE IF self._coloring = "INSTRUMENT"
  THEN [error |-> "none",
        color_index |-> ((index_instrument + 1) * 5) % PaletteSize]
  ELSE [error |-> "UnknownColoring", color_index |-> 0]

_get_color(self, index_instrument, note) ==
  IF self._coloring = "PITCH"
  THEN [error |-> "none", color_index |-> (note.pitch - 36) % PaletteSize]
  ELSE IF self._coloring = "INSTRUMENT"
  THEN [error |-> "none",
        color_index |-> ((index_instrument + 1) * 5) % PaletteSize]
  ELSE [error |-> "UnknownColoring", color_index |-> 0]

(***************************************************************************)
(* The loop of plot over the notes of every instrument (lines 210-236).    *)
(***************************************************************************)
\* Python "x or default" on an optional integer: None and 0 are falsy
OrInt(o, default) == IF IsNone(o) \/ Get(o) = 0 THEN default ELSE Get(o)

\* min(first_note_start or sys.maxsize, note_start): None and 0.0 are falsy,
\* and sys.maxsize (2^63 - 1) exceeds every time of the model
MinOrMaxsize(first_note_start, note_start) ==
  IF IsNone(first_note_start) \/ RIsZero(Get(first_note_start))
  THEN note_start
  ELSE RMin(Get(first_note_start), note_start)

\* max(last_note_end or 0, note_end)
MaxOrZero(last_note_end, note_end) ==
  IF IsNone(last_note_end) \/ RIsZero(Get(last_note_end))
  THEN RMax(RInt(0), note_end)
  ELSE RMax(Get(last_note_end), note_end)

\* the bottom edge of a note rectangle
NoteBottom(self, note) ==
  IF self._show_velocity = Some(TRUE)
  THEN RAdd(RInt(note.pitch), R(note.velocity, 127))
  ELSE RInt(note.pitch + 1)

\* the notes in the order the two nested loops visit them
RECURSIVE FlatNotes(_, _)
FlatNotes(instruments, i) ==
  IF i > Len(instruments) THEN <<>>
  ELSE [k \in 1..Len(instruments[i].notes) |->
          [index_instrument |-> i - 1,
           program |-> instruments[i].program,
           note |-> instruments[i].notes[k]]]
       \o FlatNotes(instruments, i + 1)

LoopInit ==
  [error |-> "none", pitch_min |-> None, pitch_max |-> None,
   first_note_start |-> None, last_note_end |-> None, data |-> <<>>]

\* one iteration of the inner loop
LoopBody(self, qpm, acc, item) ==
  LET note == item.note
      color == _get_color(self, item.index_instrument, note)
      note_start == RDiv(note.start, _scale_time(qpm))
      note_end == RDiv(RAdd(note.start, RSub(note.end, note.start)),
                       _scale_time(qpm))
  IN IF color.error # "none" THEN [acc EXCEPT !.error = color.error]
     ELSE [error |-> "none",
           pitch_min |-> Some(IMin(OrInt(acc.pitch_min, _MAX_PITCH),
                                   note.pitch)),
           pitch_max |-> Some(IMax(OrInt(acc.pitch_max, _MIN_PITCH),
                                   note.pitch)),
           first_note_start |->
             Some(MinOrMaxsize(acc.first_note_start, note_start)),
           last_note_end |-> Some(MaxOrZero(acc.last_note_end, note_end)),
           data |-> Append(acc.data,
                     [program |-> item.program,
                      top |-> note.pitch,
                      bottom |-> NoteBottom(self, note),
                      left |-> note_start,
                      right |-> note_end,
                      duration |-> RSub(note_end, note_start),
                      velocity |-> note.velocity,
                      color |-> color.color_index])]

RECURSIVE NotesLoop(_, _, _, _)
NotesLoop(self, qpm, items, acc) ==
  IF items = <<>> \/ acc.error # "none" THEN acc
  ELSE NotesLoop(self, qpm, Tail(items),
                 LoopBody(self, qpm, acc, Head(items)))

\* lines 238-244: the defaults of a score without notes
EmptyDefaults(acc) ==
  IF \/ IsNone(acc.first_note_start) \/ IsNone(acc.last_note_end)
     \/ IsNone(acc.pitch_min) \/ IsNone(acc.pitch_max)
  THEN [pitch_min |-> _MIN_PITCH, pitch_max |-> _MIN_PITCH + 5,
        first_note_start |-> RInt(0), last_note_end |-> RInt(0)]
  ELSE [pitch_min |-> Get(acc.pitch_min), pitch_max |-> Get(acc.pitch_max),
        first_note_start |-> Get(acc.first_note_start),
        last_note_end |-> Get(acc.last_note_end)]

\* lines 247-254: the pitch range, an override wins
PitchMin(self, pitch_min) ==
  IF ~IsNone(self._plot_pitch_range_start)
  THEN Get(self._plot_pitch_range_start)
  ELSE IMin(_MAX_PITCH, pitch_min)

\* the stop of the range bounded by min instead of max
PitchMaxClampedDown(self, pitch_max) ==
  IF ~IsNone(self._plot_pitch_range_stop)
  THEN Get(self._plot_pitch_range_stop)
  ELSE IMin(_MIN_PITCH, pitch_max)

PitchMax(self, pitch_max) ==
  IF ~IsNone(self._plot_pitch_range_stop)
  THEN Get(self._plot_pitch_range_stop)
  ELSE IMax(_MIN_PITCH, pitch_max)

\* lines 273-294: one box and one label per pitch of the range
PitchBands(pitch_min, pitch_max) ==
  [k \in 1..IMax(0, pitch_max + 1 - pitch_min) |->
     LET pitch == pitch_min + k - 1
     IN [bottom |-> pitch, top |-> pitch + 1,
         fill_alpha |-> IF pitch % 2 = 0 THEN R(15, 100) ELSE RInt(0),
         label |-> pitch]]

(***************************************************************************)
(* The time signature (lines 296-307).  The override string is the         *)
(* sequence of its parts between "/" ; a part is the text of an integer    *)
(* or some other text.  The empty string is the sequence without parts.    *)
(***************************************************************************)
IntPart(i) == [is_int |-> TRUE, value |-> i]
TextPart == [is_int |-> FALSE, value |-> 0]
Str(numerator, denominator) == <<IntPart(numerator), IntPart(denominator)>>

\* pretty_midi.TimeSignature(numerator, denominator, 0): both must be
\* integers above zero, else ValueError
TimeSignature(numerator, denominator) ==
  IF numerator > 0 /\ denominator > 0
  THEN [error |-> "none", numerator |-> numerator,
        denominator |-> denominator]
  ELSE [error |-> "ValueError", numerator |-> 0, denominator |-> 0]

\* the time signature with the marks of the score read before the override
ResolveTimeSignatureScoreFirst(self, midi) ==
  IF midi.time_signature_changes # <<>>
  THEN IF Len(midi.time_signature_changes) > 1
       THEN [error |-> "MultipleTimeSignatures",
             numerator |-> 0, denominator |-> 0]
       ELSE [error |-> "none",
             numerator |-> midi.time_signature_changes[1].numerator,
             denominator |-> midi.time_signature_changes[1].denominator]
  ELSE IF ~IsNone(self._midi_time_signature)
          /\ Get(self._midi_time_signature) # <<>>
  THEN LET parts == Get(self._midi_time_signature)
       IN IF Len(parts) # 2 \/ ~parts[1].is_int \/ ~parts[2].is_int
          THEN [error |-> "ValueError", numerator |-> 0, denominator |-> 0]
          ELSE TimeSignature(parts[1].value, parts[2].value)
  ELSE TimeSignature(4, 4)

\* the time signature with an unreadable override replaced by 4/4
ResolveTimeSignatureLenient(self, midi) ==
  IF ~IsNone(self._midi_time_signature)
     /\ Get(self._midi_time_signature) # <<>>
  THEN LET parts == Get(self._midi_time_signature)
       IN IF Len(parts) # 2 \/ ~parts[1].is_int \/ ~parts[2].is_int
          THEN TimeSignature(4, 4)
          ELSE IF parts[1].value > 0 /\ parts[2].value > 0
          THEN TimeSignature(parts[1].value, parts[2].value)
          ELSE TimeSignature(4, 4)
  ELSE IF midi.time_signature_changes # <<>>
  THEN IF Len(midi.time_signature_changes) > 1
       THEN [error |-> "MultipleTimeSignatures",
             numerator |-> 0, denominator |-> 0]
       ELSE [error |-> "none",
             numerator |-> midi.time_signature_changes[1].numerator,
             denominator |-> midi.time_signature_changes[1].denominator]
  ELSE TimeSignature(4, 4)

ResolveTimeSignature(self, midi) ==
  IF ~IsNone(self._midi_time_signature)
     /\ Get(self._midi_time_signature) # <<>>
  THEN LET parts == Get(self._midi_time_signature)
       IN IF Len(parts) # 2 \/ ~parts[1].is_int \/ ~parts[2].is_int
          THEN [error |-> "ValueError", numerator |-> 0, denominator |-> 0]
          ELSE TimeSignature(parts[1].value, parts[2].value)
  ELSE IF midi.time_signature_changes # <<>>
  THEN IF Len(midi.time_signature_changes) > 1
       THEN [error |-> "MultipleTimeSignatures",
             numerator |-> 0, denominator |-> 0]
       ELSE [error |-> "none",
             numerator |-> midi.time_signature_changes[1].numerator,
             denominator |-> midi.time_signature_changes[1].denominator]
  ELSE TimeSignature(4, 4)

(***************************************************************************)
(* The grid (lines 309-339).                                               *)
(***************************************************************************)
SecondsPerBeat(qpm, denominator) ==
  LET quarter_per_seconds == R(qpm, 60)
      seconds_per_quarter ==
        RDiv(RInt(1), RMul(quarter_per_seconds, _scale_time(qpm)))
  IN RDiv(seconds_per_quarter, R(denominator, 4))

SecondsPerBar(qpm, numerator, denominator) ==
  RMul(SecondsPerBeat(qpm, denominator), RInt(numerator))

\* the end of the plot with a bar added even on a bar boundary
PlotEndTimeAlwaysNextBar(self, last_note_end, seconds_per_bar) ==
  IF ~IsNone(self._plot_bar_range_stop)
  THEN RMul(RInt(Get(self._plot_bar_range_stop)), seconds_per_bar)
  ELSE RAdd(RMul(RInt(RTrunc(RDiv(last_note_end, seconds_per_bar))),
                 seconds_per_bar),
            seconds_per_bar)

PlotEndTime(self, last_note_end, seconds_per_bar) ==
  IF ~IsNone(self._plot_bar_range_stop)
  THEN RMul(RInt(Get(self._plot_bar_range_stop)), seconds_per_bar)
  ELSE LET plot_end_time ==
             RMul(RInt(RTrunc(RDiv(last_note_end, seconds_per_bar))),
                  seconds_per_bar)
       IN IF ~RIsZero(RMod(last_note_end, seconds_per_bar))
          THEN RAdd(plot_end_time, seconds_per_bar)
          ELSE plot_end_time

\* the start of the plot with the maximum length added instead of subtracted
PlotStartTimeAdded(self, first_note_start, plot_end_time, seconds_per_bar) ==
  IF ~IsNone(self._plot_bar_range_start)
  THEN RMul(RInt(Get(self._plot_bar_range_start)), seconds_per_bar)
  ELSE LET start_time ==
             RMul(RInt(RTrunc(RDiv(first_note_start, seconds_per_bar))),
                  seconds_per_bar)
           plot_max_length_time ==
             RMul(RInt(self._plot_max_length_bar), seconds_per_bar)
       IN RMax(RAdd(plot_end_time, plot_max_length_time), start_time)

PlotStartTime(self, first_note_start, plot_end_time, seconds_per_bar) ==
  IF ~IsNone(self._plot_bar_range_start)
  THEN RMul(RInt(Get(self._plot_bar_range_start)), seconds_per_bar)
  ELSE LET start_time ==
             RMul(RInt(RTrunc(RDiv(first_note_start, seconds_per_bar))),
                  seconds_per_bar)
           plot_max_length_time ==
             RMul(RInt(self._plot_max_length_bar), seconds_per_bar)
       IN RMax(RSub(plot_end_time, plot_max_length_time), start_time)

\* _frange(x, y, jump): x, x + jump, ... while below y
\* the range with its end included
RECURSIVE _frangeInclusive(_, _, _)
_frangeInclusive(x, y, jump) ==
  IF RLe(x, y) THEN <<x>> \o _frangeInclusive(RAdd(x, jump), y, jump) ELSE <<>>

RECURSIVE _frange(_, _, _)
_frange(x, y, jump) ==
  IF RLt(x, y) THEN <<x>> \o _frange(RAdd(x, jump), y, jump) ELSE <<>>

\* the bar boxes with the alphas counted from the show counter
BarBandsFromShowCounter(self, plot_start_time, plot_end_time, seconds_per_bar) ==
  IF PresetGet(self._preset, "show_bar")
  THEN LET times == _frange(plot_start_time, plot_end_time, seconds_per_bar)
       IN [k \in 1..Len(times) |->
             [left |-> times[k],
              right |-> RAdd(times[k], seconds_per_bar),
              fill_alpha |->
                self._bar_fill_alphas[((self._show_counter + k - 1)
                                       % Len(self._bar_fill_alphas)) + 1]]]
  ELSE <<>>

\* lines 343-358: one box per bar, the alphas taken in turn
BarBands(self, plot_start_time, plot_end_time, seconds_per_bar) ==
  IF PresetGet(self._preset, "show_bar")
  THEN LET times == _frange(plot_start_time, plot_end_time, seconds_per_bar)
       IN [k \in 1..Len(times) |->
             [left |-> times[k],
              right |-> RAdd(times[k], seconds_per_bar),
              fill_alpha |->
                self._bar_fill_alphas[((k - 1) % Len(self._bar_fill_alphas))
                                      + 1]]]
  ELSE <<>>

\* lines 361-371: one box per beat
BeatLines(self, plot_start_time, plot_end_time, seconds_per_beat) ==
  IF PresetGet(self._preset, "show_beat")
  THEN LET times == _frange(plot_start_time, plot_end_time, seconds_per_beat)
       IN [k \in 1..Len(times) |->
             [left |-> times[k],
              right |-> RAdd(times[k], seconds_per_beat)]]
  ELSE <<>>

(***************************************************************************)
(* Plotter.plot: the layout it returns, or the failure it raises.  The     *)
(* steps are in the order of the source: tempo, notes, pitch range, time   *)
(* signature, grid, title and size.                                        *)
(***************************************************************************)
Failure(kind) ==
  [error |-> kind, qpm |-> 0, data |-> <<>>,
   pitch_min |-> 0, pitch_max |-> 0, pitch_bands |-> <<>>,
   numerator |-> 0, denominator |-> 0,
   seconds_per_beat |-> RInt(0), seconds_per_bar |-> RInt(0),
   plot_start_time |-> RInt(0), plot_end_time |-> RInt(0),
   bars |-> <<>>, beats |-> <<>>, title |-> <<>>,
   plot_height |-> 0, button |-> FALSE]

PlotHeight(self, pitch_range) ==
  IF PresetIsDefined(self._preset, "plot_height")
  THEN PresetGet(self._preset, "plot_height")
  ELSE pitch_range * PresetGet(self._preset, "row_height")

\* "Visual MIDI (%s QPM, %s/%s)" as the values it is formatted from
Title(qpm, numerator, denominator) == <<qpm, numerator, denominator>>

\* plot with the time signature resolved before the notes are read
plotTimeSignatureFirst(self, midi) ==
  LET tempo == _get_qpm(self, midi)
  IN IF tempo.error # "none" THEN Failure(tempo.error) ELSE
  LET qpm == tempo.qpm
      time_signature == ResolveTimeSignature(self, midi)
  IN IF time_signature.error # "none" THEN Failure(time_signature.error) ELSE
  LET loop == NotesLoop(self, qpm, FlatNotes(midi.instruments, 1), LoopInit)
  IN IF loop.error # "none" THEN Failure(loop.error) ELSE
  LET seen == EmptyDefaults(loop)
      pitch_min == PitchMin(self, seen.pitch_min)
      pitch_max == PitchMax(self, seen.pitch_max)
      pitch_range == pitch_max + 1 - pitch_min
  IN
  LET seconds_per_beat == SecondsPerBeat(qpm, time_signature.denominator)
      seconds_per_bar == SecondsPerBar(qpm, time_signature.numerator,
                                       time_signature.denominator)
      plot_end_time == PlotEndTime(self, seen.last_note_end, seconds_per_bar)
      plot_start_time == PlotStartTime(self, seen.first_note_start,
                                       plot_end_time, seconds_per_bar)
  IN [error |-> "none", qpm |-> qpm, data |-> loop.data,
      pitch_min |-> pitch_min, pitch_max |-> pitch_max,
      pitch_bands |-> PitchBands(pitch_min, pitch_max),
      numerator |-> time_signature.numerator,
      denominator |-> time_signature.denominator,
      seconds_per_beat |-> seconds_per_beat,
      seconds_per_bar |-> seconds_per_bar,
      plot_start_time |-> plot_start_time,
      plot_end_time |-> plot_end_time,
      bars |-> BarBands(self, plot_start_time, plot_end_time,
                        seconds_per_bar),
      beats |-> BeatLines(self, plot_start_time, plot_end_time,
                          seconds_per_beat),
      title |-> Title(qpm, time_signature.numerator,
                      time_signature.denominator),
      plot_height |-> PlotHeight(self, pitch_range),
      button |-> (self._live_reload
                  /\ PresetGet(self._preset, "stop_live_reload_button"))]

plot(self, midi) ==
  LET tempo == _get_qpm(self, midi)
  IN IF tempo.error # "none" THEN Failure(tempo.error) ELSE
  LET qpm == tempo.qpm
      loop == NotesLoop(self, qpm, FlatNotes(midi.instruments, 1), LoopInit)
  IN IF loop.error # "none" THEN Failure(loop.error) ELSE
  LET seen == EmptyDefaults(loop)
      pitch_min == PitchMin(self, seen.pitch_min)
      pitch_max == PitchMax(self, seen.pitch_max)
      pitch_range == pitch_max + 1 - pitch_min
      time_signature == ResolveTimeSignature(self, midi)
  IN IF time_signature.error # "none" THEN Failure(time_signature.error) ELSE
  LET seconds_per_beat == SecondsPerBeat(qpm, time_signature.denominator)
      seconds_per_bar == SecondsPerBar(qpm, time_signature.numerator,
                                       time_signature.denominator)
      plot_end_time == PlotEndTime(self, seen.last_note_end, seconds_per_bar)
      plot_start_time == PlotStartTime(self, seen.first_note_start,
                                       plot_end_time, seconds_per_bar)
  IN [error |-> "none", qpm |-> qpm, data |-> loop.data,
      pitch_min |-> pitch_min, pitch_max |-> pitch_max,
      pitch_bands |-> PitchBands(pitch_min, pitch_max),
      numerator |-> time_signature.numerator,
      denominator |-> time_signature.denominator,
      seconds_per_beat |-> seconds_per_beat,
      seconds_per_bar |-> seconds_per_bar,
      plot_start_time |-> plot_start_time,
      plot_end_time |-> plot_end_time,
      bars |-> BarBands(self, plot_start_time, plot_end_time,
                        seconds_per_bar),
      beats |-> BeatLines(self, plot_start_time, plot_end_time,
                          seconds_per_beat),
      title |-> Title(qpm, time_signature.numerator,
                      time_signature.denominator),
      plot_height |-> PlotHeight(self, pitch_range),
      button |-> (self._live_reload
                  /\ PresetGet(self._preset, "stop_live_reload_button"))]

(***************************************************************************)
(* The operations of a plotter on one score.                               *)
(***************************************************************************)
\* Plotter.plot called by the client: the layout or the failure is kept
Plot ==
  /\ layout' = Some(plot(plotter, pretty_midi))
  /\ UNCHANGED <<plotter, pretty_midi, plot_file, browser_opened>>

\* Plotter.save: the file is written unless plot fails
Save ==
  LET result == plot(plotter, pretty_midi)
  IN /\ layout' = Some(result)
     /\ plot_file' = IF result.error # "none" THEN plot_file
                     ELSE IF plotter._live_reload THEN "html_live_reload"
                     ELSE "html"
     /\ UNCHANGED <<plotter, pretty_midi, browser_opened>>

\* show opening the browser at every call, whatever the counter
ShowAlwaysOpens ==
  LET result == plot(plotter, pretty_midi)
  IN /\ plotter._show_counter < MaxShow
     /\ layout' = Some(result)
     /\ IF result.error # "none"
        THEN UNCHANGED <<plotter, plot_file, browser_opened>>
        ELSE /\ plot_file' = IF plotter._live_reload THEN "html_live_reload"
                             ELSE "html"
             /\ browser_opened' = browser_opened + 1
             /\ plotter' = [plotter EXCEPT
                              !._show_counter = plotter._show_counter + 1]
     /\ UNCHANGED pretty_midi

\* Plotter.show: the file is written, the browser opened (with live reload
\* on the first show only) and the counter increased, unless plot fails
Show ==
  LET result == plot(plotter, pretty_midi)
  IN /\ plotter._show_counter < MaxShow
     /\ layout' = Some(result)
     /\ IF result.error # "none"
        THEN UNCHANGED <<plotter, plot_file, browser_opened>>
        ELSE /\ plot_file' = IF plotter._live_reload THEN "html_live_reload"
                             ELSE "html"
             /\ browser_opened' =
                  IF plotter._live_reload /\ plotter._show_counter # 0
                  THEN browser_opened
                  ELSE browser_opened + 1
             /\ plotter' = [plotter EXCEPT
                              !._show_counter = plotter._show_counter + 1]
     /\ UNCHANGED pretty_midi

Next == Plot \/ Save \/ Show

(***************************************************************************)
(* Construction.  Plotter.__init__ with its default arguments, and the     *)
(* score pretty_midi.PrettyMIDI() gives: one tempo of 120 at time 0,       *)
(* reported by get_tempo_changes() as the arrays (times, tempi).           *)
(***************************************************************************)
Plotter ==
  [_qpm |-> None,
   _plot_pitch_range_start |-> None,
   _plot_pitch_range_stop |-> None,
   _plot_bar_range_start |-> None,
   _plot_bar_range_stop |-> None,
   _plot_max_length_bar |-> 8,
   _bar_fill_alphas |-> <<R(25, 100), R(5, 100)>>,
   _coloring |-> "PITCH",
   _show_velocity |-> None,
   _midi_time_signature |-> None,
   _live_reload |-> FALSE,
   _show_counter |-> 0,
   _preset |-> PRESET_DEFAULT]

PrettyMIDI ==
  [tempo_changes |-> <<(<<0>>), (<<120>>)>>,
   time_signature_changes |-> <<>>,
   instruments |-> <<>>]

Instrument(program, notes) == [program |-> program, notes |-> notes]

Note(velocity, pitch, start, end) ==
  [velocity |-> velocity, pitch |-> pitch, start |-> start, end |-> end]

\* the sequences over S of length at most n
SeqsUpTo(S, n) == UNION {[1..k -> S] : k \in 0..n}

\* the instrument lists holding at most MaxNotes notes of the set:
\* no instrument, one instrument, or two instruments sharing the notes
Instruments(notes) ==
  LET seqs == SeqsUpTo(notes, MaxNotes)
  IN {<<>>}
     \cup {<<Instrument(0, s)>> : s \in seqs}
     \cup {<<Instrument(0, SubSeq(sk[1], 1, sk[2])),
             Instrument(1, SubSeq(sk[1], sk[2] + 1, Len(sk[1])))>> :
           sk \in {x \in seqs \X (0..MaxNotes) : x[2] <= Len(x[1])}}

TypeInit ==
  /\ layout = None
  /\ plot_file = "absent"
  /\ browser_opened = 0

(***************************************************************************)
(* Pitch range: notes of any pitch in any order, pitch-range overrides.    *)
(***************************************************************************)
Pitches == {0, 36, 50, 127}
PitchOverrides == {None, Some(0), Some(40), Some(127)}

InitPitch ==
  /\ TypeInit
  /\ \E start \in PitchOverrides, stop \in PitchOverrides :
       plotter = [Plotter EXCEPT !._plot_pitch_range_start = start,
                                 !._plot_pitch_range_stop = stop]
  /\ \E instruments \in
         Instruments({Note(100, p, R(3, 2), R(17, 10)) : p \in Pitches}) :
       pretty_midi = [PrettyMIDI EXCEPT !.instruments = instruments]

SpecPitch == InitPitch /\ [][Next]_vars

(***************************************************************************)
(* Properties of the pitch range.                                          *)
(***************************************************************************)
Returned == ~IsNone(layout) /\ Get(layout).error = "none"
Result == Get(layout)

AllNotes(midi) ==
  {midi.instruments[i].notes[k] :
     <<i, k>> \in {x \in (1..Len(midi.instruments)) \X (1..(MaxNotes + 1)) :
                    x[2] <= Len(midi.instruments[x[1]].notes)}}

AllPitches == {note.pitch : note \in AllNotes(pretty_midi)}
LeastOf(S) == CHOOSE x \in S : \A y \in S : x <= y
GreatestOf(S) == CHOOSE x \in S : \A y \in S : y <= x

NoPitchOverride ==
  /\ IsNone(plotter._plot_pitch_range_start)
  /\ IsNone(plotter._plot_pitch_range_stop)

\* C2: with no pitch-range override and at least one note, the returned
\* pitch_min is the least and pitch_max the greatest pitch of all notes of
\* all instruments, in whatever order the notes come.
C2_PitchRangeIsMinMax ==
  (Returned /\ NoPitchOverride /\ AllPitches # {}) =>
    /\ Result.pitch_min = LeastOf(AllPitches)
    /\ Result.pitch_max = GreatestOf(AllPitches)

\* C3 as stated: every returned layout has pitch_min <= pitch_max, whatever
\* the notes and the pitch-range overrides.
C3_PitchMinLePitchMax_AnyOverride ==
  Returned => Result.pitch_min <= Result.pitch_max

\* C3 amended: a returned layout has pitch_min <= pitch_max when no
\* pitch-range override is given, or when both are given with
\* start <= stop.
C3_PitchMinLePitchMax ==
  (Returned /\ (\/ NoPitchOverride
                \/ /\ ~IsNone(plotter._plot_pitch_range_start)
                   /\ ~IsNone(plotter._plot_pitch_range_stop)
                   /\ Get(plotter._plot_pitch_range_start)
                        <= Get(plotter._plot_pitch_range_stop)))
    => Result.pitch_min <= Result.pitch_max

\* a layout of notes of different pitches, a pitch 0 first, without override
C3_Witness ==
  /\ Returned
  /\ NoPitchOverride
  /\ Cardinality(AllPitches) > 1
  /\ Len(pretty_midi.instruments) > 0
  /\ Len(pretty_midi.instruments[1].notes) > 0
  /\ pretty_midi.instruments[1].notes[1].pitch = 0
  /\ Result.pitch_min <= Result.pitch_max

(***************************************************************************)
(* Time window: notes at several times in any order, every tempo, time     *)
(* signature, bar-range override and maximum length.                       *)
(***************************************************************************)
NoteSpans ==
  {<<RInt(0), RInt(1)>>, <<R(7, 2), RInt(4)>>,
   <<RInt(4), R(43, 10)>>, <<R(21, 2), RInt(11)>>}
QpmOverrides == {None, Some(60), Some(240)}
TimeSignatureMarks == {<<>>, <<[numerator |-> 3, denominator |-> 8]>>}
BarStartOverrides == {None, Some(0), Some(7)}
BarStopOverrides == {None, Some(0), Some(3)}
MaxLengthBars == {1, 8}

InitWindow ==
  /\ TypeInit
  /\ \E qpm \in QpmOverrides, start \in BarStartOverrides,
        stop \in BarStopOverrides, length \in MaxLengthBars :
       plotter = [Plotter EXCEPT !._qpm = qpm,
                                 !._plot_bar_range_start = start,
                                 !._plot_bar_range_stop = stop,
                                 !._plot_max_length_bar = length]
  /\ \E marks \in TimeSignatureMarks,
        instruments \in
          Instruments({Note(100, 36, span[1], span[2]) : span \in NoteSpans}) :
       pretty_midi = [PrettyMIDI EXCEPT !.time_signature_changes = marks,
                                        !.instruments = instruments]

SpecWindow == InitWindow /\ [][Next]_vars

(***************************************************************************)
(* Properties of the time window.  The times of the notes are those of the *)
(* note rectangles of the layout (left and right edges).                   *)
(***************************************************************************)
NoBarOverride ==
  /\ IsNone(plotter._plot_bar_range_start)
  /\ IsNone(plotter._plot_bar_range_stop)

NoNotes == AllNotes(pretty_midi) = {}

Called == ~IsNone(layout)

RLeastOf(S) == CHOOSE x \in S : \A y \in S : RLe(x, y)
RGreatestOf(S) == CHOOSE x \in S : \A y \in S : RLe(y, x)
FirstNoteStart == RLeastOf({Result.data[k].left : k \in 1..Len(Result.data)})
LastNoteEnd == RGreatestOf({Result.data[k].right : k \in 1..Len(Result.data)})
IsMultipleOf(x, unit) == RDiv(x, unit).d = 1
FloorToBar(x, seconds_per_bar) ==
  LET q == RDiv(x, seconds_per_bar)
  IN RMul(RInt(q.n \div q.d), seconds_per_bar)

\* C1: plot of a score without notes and without bar-range override raises
\* no error and returns the window from 0 to seconds_per_bar, one empty bar.
C1_EmptyScoreShowsOneBar ==
  (Called /\ NoNotes /\ NoBarOverride) =>
    /\ Result.error = "none"
    /\ Result.plot_start_time = RInt(0)
    /\ Result.plot_end_time = Result.seconds_per_bar

\* C4 as stated: every returned layout has plot_start_time <= plot_end_time,
\* whatever the notes, the bar-range overrides and the maximum length.
C4_StartLeEnd_AnyOverride ==
  Returned => RLe(Result.plot_start_time, Result.plot_end_time)

\* C4 amended: a returned layout has plot_start_time <= plot_end_time when no
\* bar-range override is given, or when both are given with start <= stop.
C4_StartLeEnd ==
  (Returned /\ (\/ NoBarOverride
                \/ /\ ~IsNone(plotter._plot_bar_range_start)
                   /\ ~IsNone(plotter._plot_bar_range_stop)
                   /\ Get(plotter._plot_bar_range_start)
                        <= Get(plotter._plot_bar_range_stop)))
    => RLe(Result.plot_start_time, Result.plot_end_time)

\* a layout of several notes without bar-range override, cut on the left by
\* the maximum length
C4_Witness ==
  /\ Returned
  /\ NoBarOverride
  /\ Len(Result.data) > 1
  /\ RLt(FloorToBar(FirstNoteStart, Result.seconds_per_bar),
         Result.plot_start_time)
  /\ RLt(Result.plot_start_time, Result.plot_end_time)

\* C5: without bar-start override and with at least one note,
\* plot_start_time is the greater of plot_end_time minus the maximum length
\* and the start of the bar of the earliest note, whatever the order of the
\* notes.
C5_WindowStart ==
  (Returned /\ IsNone(plotter._plot_bar_range_start) /\ ~NoNotes) =>
    Result.plot_start_time =
      RMax(RSub(Result.plot_end_time,
                RMul(RInt(plotter._plot_max_length_bar),
                     Result.seconds_per_bar)),
           FloorToBar(FirstNoteStart, Result.seconds_per_bar))

\* C6: without bar-stop override and with at least one note, plot_end_time
\* is the least multiple of seconds_per_bar at or after the end of the last
\* note: the end itself when it is on a bar boundary, else the next one.
C6_WindowEnd ==
  (Returned /\ IsNone(plotter._plot_bar_range_stop) /\ ~NoNotes) =>
    /\ IsMultipleOf(Result.plot_end_time, Result.seconds_per_bar)
    /\ RLe(LastNoteEnd, Result.plot_end_time)
    /\ RLt(RSub(Result.plot_end_time, Result.seconds_per_bar), LastNoteEnd)

\* a layout whose last note ends on a bar boundary: no bar is added
C6_Witness ==
  /\ Returned
  /\ IsNone(plotter._plot_bar_range_stop)
  /\ ~NoNotes
  /\ IsMultipleOf(LastNoteEnd, Result.seconds_per_bar)
  /\ Result.plot_end_time = LastNoteEnd
  /\ Result.qpm = 120
  /\ LastNoteEnd = RInt(4)

\* C9: for every tempo and time signature, seconds_per_beat is
\* (60 / qpm) * (4 / denominator) and seconds_per_bar is seconds_per_beat
\* times the numerator.
C9_SecondsPerBeatAndBar ==
  Returned =>
    /\ Result.seconds_per_beat =
         RMul(R(60, Result.qpm), R(4, Result.denominator))
    /\ Result.seconds_per_bar =
         RMul(RMul(R(60, Result.qpm), R(4, Result.denominator)),
              RInt(Result.numerator))

(***************************************************************************)
(* Tempo: any tempo changes, with and without the qpm override.            *)
(***************************************************************************)
TempoArrays ==
  {<<0>>, <<90>>, <<120>>, <<140>>, <<90, 140>>, <<120, 120>>}
TempoOverrides == {None, Some(0), Some(100)}
OneNote == <<Instrument(0, <<Note(100, 36, R(3, 2), R(17, 10))>>)>>

InitTempo ==
  /\ TypeInit
  /\ \E qpm \in TempoOverrides :
       plotter = [Plotter EXCEPT !._qpm = qpm]
  /\ \E tempo_changes \in SeqsUpTo(TempoArrays, MaxMarks),
        instruments \in {<<>>, OneNote} :
       pretty_midi = [PrettyMIDI EXCEPT !.tempo_changes = tempo_changes,
                                        !.instruments = instruments]

SpecTempo == InitTempo /\ [][Next]_vars

QpmOverrideSet == ~IsNone(plotter._qpm) /\ Get(plotter._qpm) # 0

\* the values of the marks whose minimum and maximum are positive and equal
PlateauValues ==
  {LeastOf({tc[i] : i \in 1..Len(tc)}) :
     tc \in {pretty_midi.tempo_changes[j] :
               j \in {k \in 1..Len(pretty_midi.tempo_changes) :
                        LET values == {pretty_midi.tempo_changes[k][i] :
                                         i \in 1..Len(pretty_midi.tempo_changes[k])}
                        IN /\ LeastOf(values) > 0
                           /\ LeastOf(values) = GreatestOf(values)}}}

TimeSignatures ==
  {[numerator |-> 3, denominator |-> 8], [numerator |-> 4, denominator |-> 4],
   [numerator |-> 6, denominator |-> 8]}
TimeSignatureOverrides ==
  {None, Some(<<>>), Some(Str(3, 4)), Some(Str(6, 8)), Some(Str(4, 0)),
   Some(<<IntPart(4)>>), Some(<<TextPart, IntPart(4)>>)}

InitTimeSignature ==
  /\ TypeInit
  /\ \E override \in TimeSignatureOverrides :
       plotter = [Plotter EXCEPT !._midi_time_signature = override]
  /\ \E marks \in SeqsUpTo(TimeSignatures, MaxMarks),
        instruments \in {<<>>, OneNote} :
       pretty_midi = [PrettyMIDI EXCEPT !.time_signature_changes = marks,
                                        !.instruments = instruments]

SpecTimeSignature == InitTimeSignature /\ [][Next]_vars

TimeSignatureOverrideUnset ==
  \/ IsNone(plotter._midi_time_signature)
  \/ Get(plotter._midi_time_signature) = <<>>

\* the override is the text of two integers above zero
TimeSignatureOverrideValid ==
  /\ ~TimeSignatureOverrideUnset
  /\ Len(Get(plotter._midi_time_signature)) = 2
  /\ \A i \in 1..2 : /\ Get(plotter._midi_time_signature)[i].is_int
                     /\ Get(plotter._midi_time_signature)[i].value > 0

\* C8: an override N/D is used whatever the score holds; without override,
\* several marks fail with MultipleTimeSignatures, one mark is used as it
\* is, and no mark gives 4/4.
C8_TimeSignaturePrecedence ==
  LET marks == pretty_midi.time_signature_changes
  IN Called =>
       /\ TimeSignatureOverrideValid =>
            /\ Result.error = "none"
            /\ Result.numerator = Get(plotter._midi_time_signature)[1].value
            /\ Result.denominator = Get(plotter._midi_time_signature)[2].value
       /\ (TimeSignatureOverrideUnset /\ Len(marks) > 1) =>
            Result.error = "MultipleTimeSignatures"
       /\ (TimeSignatureOverrideUnset /\ Len(marks) = 1) =>
            /\ Result.error = "none"
            /\ Result.numerator = marks[1].numerator
            /\ Result.denominator = marks[1].denominator
       /\ (TimeSignatureOverrideUnset /\ Len(marks) = 0) =>
            /\ Result.error = "none"
            /\ Result.numerator = 4
            /\ Result.denominator = 4

\* a layout made with an override on a score of several marks
C8_Witness ==
  /\ Returned
  /\ TimeSignatureOverrideValid
  /\ Len(pretty_midi.time_signature_changes) > 1
  /\ Result.numerator = 3
  /\ Result.denominator = 4

(***************************************************************************)
(* The plotter as a whole: colorings, velocity, presets and live reload on *)
(* scores of one or two instruments.                                       *)
(***************************************************************************)
Presets == {PRESET_DEFAULT, PRESET_SMALL, PRESET_4K}
Colorings == Coloring \cup {"VELOCITY"}
Notes ==
  {Note(100, 36, R(3, 2), R(17, 10)), Note(64, 37, R(7, 2), RInt(4)),
   Note(100, 0, RInt(0), RInt(1))}

Init ==
  /\ TypeInit
  /\ \E coloring \in Colorings, live_reload \in BOOLEAN,
        show_velocity \in {None, Some(TRUE)}, preset \in Presets :
       plotter = [Plotter EXCEPT !._coloring = coloring,
                                 !._live_reload = live_reload,
                                 !._show_velocity = show_velocity,
                                 !._preset = preset]
  /\ \E instruments \in Instruments(Notes) :
       pretty_midi = [PrettyMIDI EXCEPT !.instruments = instruments]

Spec == Init /\ [][Next]_vars

\* C10: once plot, save or show has returned a layout for the score, every
\* later plot, save or show of the plotter returns the same layout (or
\* raises the same failure), whatever the show counter has become.
C10_SameLayoutAgain == [][Called => layout' = layout]_vars

\* a layout returned after the show counter has been increased twice
C10_Witness ==
  /\ Returned
  /\ plotter._show_counter = MaxShow
  /\ MaxShow >= 2
  /\ Len(Result.bars) > 0
  /\ browser_opened > 0

(***************************************************************************)
(* Failures: scores and plotters on which the tempo, the coloring and the  *)
(* time signature can each fail, alone or together.  The failure of an     *)
(* unreadable time signature override is the ValueError raised by the      *)
(* unpacking of split("/"), by int() or by TimeSignature.                  *)
(***************************************************************************)
FailingTempoChanges == {<<>>, <<(<<0>>), (<<120>>)>>, <<(<<90>>), (<<140>>)>>}
FailingOverrides == TimeSignatureOverrides \cup {Some(Str(-3, 4))}

InitFailures ==
  /\ TypeInit
  /\ \E coloring \in Colorings, override \in FailingOverrides :
       plotter = [Plotter EXCEPT !._coloring = coloring,
                                 !._midi_time_signature = override]
  /\ \E tempo_changes \in FailingTempoChanges,
        marks \in SeqsUpTo(TimeSignatures, MaxMarks),
        instruments \in {<<>>, OneNote} :
       pretty_midi = [PrettyMIDI EXCEPT !.tempo_changes = tempo_changes,
                                        !.time_signature_changes = marks,
                                        !.instruments = instruments]

SpecFailures == InitFailures /\ [][Next]_vars

\* the tempo changes whose minimum and maximum are positive and equal
PlateauMarks ==
  {k \in 1..Len(pretty_midi.tempo_changes) :
     LET values == {pretty_midi.tempo_changes[k][i] :
                      i \in 1..Len(pretty_midi.tempo_changes[k])}
     IN LeastOf(values) > 0 /\ LeastOf(values) = GreatestOf(values)}

\* the failure of the tempo alone, "none" when it resolves
TempoFailure ==
  IF QpmOverrideSet THEN "none"
  ELSE IF PlateauMarks = {} THEN "UnknownTempo"
  ELSE IF Cardinality(PlateauMarks) > 1 THEN "MultipleTempoChanges"
  ELSE "none"

\* the failure of the coloring alone: it needs a note to show
ColoringFailure ==
  IF ~NoNotes /\ plotter._coloring \notin Coloring
  THEN "UnknownColoring" ELSE "none"

\* the failure of the time signature alone
TimeSignatureFailure ==
  IF TimeSignatureOverrideUnset
  THEN IF Len(pretty_midi.time_signature_changes) > 1
       THEN "MultipleTimeSignatures" ELSE "none"
  ELSE IF TimeSignatureOverrideValid THEN "none" ELSE "ValueError"

\* the override is a string, the empty one too, that is not the text of two
\* integers above zero
TimeSignatureOverrideInvalid ==
  /\ ~IsNone(plotter._midi_time_signature)
  /\ ~(/\ Len(Get(plotter._midi_time_signature)) = 2
       /\ \A i \in 1..2 : /\ Get(plotter._midi_time_signature)[i].is_int
                          /\ Get(plotter._midi_time_signature)[i].value > 0)

\* C11 as stated: a time signature override that is not the text of two
\* integers above zero makes plot fail with the format failure, never with
\* another failure and never with a layout.
C11_InvalidOverrideFails_Always ==
  (Called /\ TimeSignatureOverrideInvalid) => Result.error = "ValueError"

\* C11 amended: a non-empty override that is not the text of two integers
\* above zero never gives a layout, and the failure is the format failure
\* whenever the tempo resolves and the notes can be colored, the two steps
\* that come before the time signature.
C11_InvalidOverrideFails ==
  (Called /\ TimeSignatureOverrideInvalid /\ ~TimeSignatureOverrideUnset) =>
    /\ Result.error # "none"
    /\ (TempoFailure = "none" /\ ColoringFailure = "none")
         => Result.error = "ValueError"

\* plot has failed on the override 4/0 of a score with a note
C11_Witness ==
  /\ Called
  /\ plotter._midi_time_signature = Some(Str(4, 0))
  /\ ~NoNotes
  /\ TempoFailure = "none"
  /\ ColoringFailure = "none"
  /\ Result.error = "ValueError"

\* C12 as stated: plot checks the tempo, then the time signature, then the
\* notes, so a failure of the time signature wins over an unknown coloring.
C12_TimeSignatureBeforeNotes ==
  Called =>
    /\ TempoFailure # "none" => Result.error = TempoFailure
    /\ (TempoFailure = "none" /\ TimeSignatureFailure # "none")
         => Result.error = TimeSignatureFailure

\* C12 amended: plot checks the tempo, then the notes and their colors, then
\* the time signature; the first of these that fails is the failure raised,
\* nothing is returned with it, and a layout is returned when none fails.
C12_FailureOrder ==
  Called =>
    /\ Result.error =
         IF TempoFailure # "none" THEN TempoFailure
         ELSE IF ColoringFailure # "none" THEN ColoringFailure
         ELSE TimeSignatureFailure
    /\ Result.error # "none" => Result = Failure(Result.error)

\* plot has failed on the coloring of a score whose time signature cannot
\* be resolved either
C12_Witness ==
  /\ Called
  /\ TempoFailure = "none"
  /\ ColoringFailure = "UnknownColoring"
  /\ TimeSignatureFailure = "MultipleTimeSignatures"
  /\ Result.error = "UnknownColoring"

(***************************************************************************)
(* Properties of the bar and beat grids.                                   *)
(***************************************************************************)
GridShown ==
  /\ PresetGet(plotter._preset, "show_bar")
  /\ PresetGet(plotter._preset, "show_beat")

\* every bar box is one bar long and inside the window, the first starts
\* the window and each next one starts where the one before ends; every
\* beat box is one beat long and inside the window
GridInsideWindow ==
  /\ \A k \in 1..Len(Result.bars) :
       /\ RLe(Result.plot_start_time, Result.bars[k].left)
       /\ RLe(Result.bars[k].right, Result.plot_end_time)
       /\ Result.bars[k].right
            = RAdd(Result.bars[k].left, Result.seconds_per_bar)
       /\ k = 1 => Result.bars[k].left = Result.plot_start_time
       /\ k > 1 => Result.bars[k].left = Result.bars[k - 1].right
  /\ \A k \in 1..Len(Result.beats) :
       /\ RLe(Result.plot_start_time, Result.beats[k].left)
       /\ RLe(Result.beats[k].right, Result.plot_end_time)
       /\ Result.beats[k].right
            = RAdd(Result.beats[k].left, Result.seconds_per_beat)

WindowBars ==
  RDiv(RSub(Result.plot_end_time, Result.plot_start_time),
       Result.seconds_per_bar)

\* C13 as stated: with the grids shown, the bar boxes and beat boxes lie
\* inside the window, the bars start at plot_start_time and follow each
\* other, and their number is (plot_end_time - plot_start_time) /
\* seconds_per_bar, with or without bar-range overrides.
C13_GridInsideWindow_AnyOverride ==
  (Returned /\ GridShown) =>
    /\ GridInsideWindow
    /\ RInt(Len(Result.bars)) = WindowBars

\* C13 amended: the same, with the number of bars being that quotient when
\* plot_start_time <= plot_end_time and zero, with no beat either, when the
\* overrides give plot_start_time > plot_end_time.
C13_GridInsideWindow ==
  (Returned /\ GridShown) =>
    /\ GridInsideWindow
    /\ RLe(Result.plot_start_time, Result.plot_end_time)
         => RInt(Len(Result.bars)) = WindowBars
    /\ RLt(Result.plot_end_time, Result.plot_start_time)
         => Result.bars = <<>> /\ Result.beats = <<>>

\* a layout of three bars made with both bar-range overrides on a score
\* with notes
C13_Witness ==
  /\ Returned
  /\ GridShown
  /\ ~NoNotes
  /\ plotter._plot_bar_range_start = Some(0)
  /\ plotter._plot_bar_range_stop = Some(3)
  /\ Len(Result.bars) = 3
  /\ Result.bars[3].right = Result.plot_end_time
  /\ Len(Result.beats) > 3

(***************************************************************************)
(* Properties of the show counter.                                         *)
(***************************************************************************)
\* C14: the show counter starts at 0, a show that completes adds one to it,
\* and plot, save and a show that fails leave it as it is; with live reload
\* the browser is opened by the first show that completes and by no other
\* call.
C14_ShowCounter ==
  /\ plotter._show_counter = 0 /\ browser_opened = 0
  /\ [][/\ Plot => /\ plotter'._show_counter = plotter._show_counter
                   /\ browser_opened' = browser_opened
        /\ Save => /\ plotter'._show_counter = plotter._show_counter
                   /\ browser_opened' = browser_opened
        /\ (Show /\ Get(layout').error # "none")
             => /\ plotter'._show_counter = plotter._show_counter
                /\ browser_opened' = browser_opened
        /\ (Show /\ Get(layout').error = "none")
             => /\ plotter'._show_counter = plotter._show_counter + 1
                /\ plotter._live_reload
                     => browser_opened' =
                          IF plotter._show_counter = 0
                          THEN browser_opened + 1 ELSE browser_opened]_vars
  /\ [](plotter._live_reload
          => browser_opened = IF plotter._show_counter > 0 THEN 1 ELSE 0)

\* with live reload, two shows have completed and the browser was opened
\* once
C14_Witness ==
  /\ Returned
  /\ plotter._live_reload
  /\ plotter._show_counter >= 2
  /\ browser_opened = 1
  /\ plot_file = "html_live_reload"

(***************************************************************************)
(* Coloring: a note of any pitch in the last of one to MaxInstruments      *)
(* instruments, alone or followed by a second note, under every coloring.  *)
(***************************************************************************)
ColorPitches == _MIN_PITCH.._MAX_PITCH

\* the instruments before the last one have no note; as in the tests the
\* program of an instrument is its index
ColorInstruments(index, notes) ==
  [i \in 1..(index + 1) |->
     Instrument(i - 1, IF i = index + 1 THEN notes ELSE <<>>)]

InitColor ==
  /\ TypeInit
  /\ \E coloring \in Colorings, show_velocity \in {None, Some(TRUE)} :
       plotter = [Plotter EXCEPT !._coloring = coloring,
                                 !._show_velocity = show_velocity]
  /\ \E pitch \in ColorPitches, index \in 0..(MaxInstruments - 1),
        second \in BOOLEAN :
       LET first == Note(100, pitch, R(3, 2), R(17, 10))
           notes == IF second
                    THEN <<first, Note(64, _MAX_PITCH - pitch, R(7, 2), RInt(4))>>
                    ELSE <<first>>
       IN pretty_midi =
            [PrettyMIDI EXCEPT !.instruments = ColorInstruments(index, notes)]

SpecColor == InitColor /\ [][Next]_vars

(***************************************************************************)
(* Properties of the color index.                                          *)
(***************************************************************************)
\* the c of 0..m-1 with x = q * m + c for some integer q
ModOf(x, m) ==
  CHOOSE c \in 0..(m - 1) : \E q \in (0 - 200)..200 : x = q * m + c

\* C15: the color index of every note of a returned layout lies in
\* 0..paletteSize-1 and is determined by the coloring, the index of the
\* note's instrument and the note's pitch: (pitch - 36) mod paletteSize by
\* pitch, ((instrumentIndex + 1) * 5) mod paletteSize by instrument; with
\* any other coloring the call on a score with notes fails on the unknown
\* coloring.
C15_ColorIndex ==
  /\ Returned =>
       /\ Len(Result.data) > 0
       /\ plotter._coloring \in Coloring
       /\ \A k \in 1..Len(Result.data) :
            LET note == Result.data[k]
            IN /\ note.color \in 0..(PaletteSize - 1)
               /\ plotter._coloring = "PITCH"
                    => note.color = ModOf(note.top - 36, PaletteSize)
               /\ plotter._coloring = "INSTRUMENT"
                    => note.color = ModOf((note.program + 1) * 5, PaletteSize)
  /\ (Called /\ plotter._coloring \notin Coloring)
       => Result.error = "UnknownColoring"

\* a note below pitch 36 colored by pitch: 35 has the last color of the
\* palette
C15_Witness ==
  /\ Returned
  /\ plotter._coloring = "PITCH"
  /\ \E k \in 1..Len(Result.data) :
       /\ Result.data[k].top = 35
       /\ Result.data[k].color = PaletteSize - 1

====
